---- MODULE Spec2Model ----
(***************************************************************************)
(* Model of tag-state/calculate-tag-state.py: the reduction of a build log *)
(* into a tag state (build_tag_state), the version ordering of its output  *)
(* (LooseVersion, semver_sorted_dict) and the registry synchronisation     *)
(* driven by the tag state (the __main__ block).                           *)
(*                                                                         *)
(* Strings that the program splits, pads or compares are sequences of      *)
(* character codes; digests, which the program only copies and compares by *)
(* identity, are records [text, id] where id names the string object.      *)
(*                                                                         *)
(* log is the build log read so far, tag_state the dict of that name, pc   *)
(* and pos the place in the program and in its current loop, ops the       *)
(* docker commands run, reports the three dicts made after the tag and     *)
(* push loop, path_exists whether the build log file is there, stdout and  *)
(* stderr what was printed, and cmp three version strings and the results  *)
(* of their comparisons.                                                   *)
(***************************************************************************)
EXTENDS Integers, Sequences, FiniteSets, TLC

VARIABLES log, tag_state, pc, pos, ops, reports, path_exists, stdout, stderr, cmp

vars == <<log, tag_state, pc, pos, ops, reports, path_exists, stdout, stderr, cmp>>

(***************************************************************************)
(* Bounds of the model.                                                    *)
(***************************************************************************)
\* longest build log reduced record by record
MaxLog == 3
\* longest build log whose tag state is synchronised with the registry
MaxSyncLog == 1
\* longest build log whose manifests are made after a tag and push loop
\* without failure
MaxManifestLog == 2
\* most segments of a version string that is compared
MaxSegments == 2

(***************************************************************************)
(* Characters and the strings of the input universe.                       *)
(***************************************************************************)
Dot == 46
Plus == 43
Dash == 45
Zero == 48

\* the text of str(None), which an f-string inserts for an absent token
NoneText == <<78, 111, 110, 101>>
\* the value None (no string is equal to it)
None == <<-1>>

Tok1 == <<49>>
Tok2 == <<50>>
Tok3 == <<51>>
Tok02 == <<48, 50>>
Tok10 == <<49, 48>>
Arm64 == <<97, 114, 109, 54, 52>>
Amd64 == <<97, 109, 100, 54, 52>>

Majors == {Tok1}
Minors == {Tok2, Tok02}
Patches == {Tok3, Tok10}
Archs == {Arm64, Amd64}

PatchVersions == {a \o <<Dot>> \o b \o <<Dot>> \o c : a \in Majors, b \in Minors, c \in Patches}
ArchVersion(v, x) == v \o <<Dash>> \o x
Hashes == {"aaa", "bbb"}
ArchHash(x) == IF x = Arm64 THEN "aaa" ELSE "bbb"

\* the build records of the logs: every patch version with every hash, every
\* arch-specific version with the hash of its architecture, one record
\* without container_hash and one without version
ValidRecords ==
    {[version |-> v, container_hash |-> h] : v \in PatchVersions, h \in Hashes}
    \cup {[version |-> ArchVersion(v, x), container_hash |-> ArchHash(x)] : v \in PatchVersions, x \in Archs}
InvalidRecords == {[version |-> Tok1 \o <<Dot>> \o Tok2 \o <<Dot>> \o Tok3 \o <<Dash>> \o Arm64],
                    [container_hash |-> "aaa"]}
Records == ValidRecords \cup InvalidRecords

(***************************************************************************)
(* Constants of the program.                                               *)
(***************************************************************************)
SPLIT_VERSION_REGEX == {Dot, Plus, Dash}
\* A digest is a string object: text is what it says and id is the object.
\* json.loads makes a new string object for every container_hash of more
\* than one character, so the digest of the k-th record of the log has id k;
\* id 0 is the one string object bound to the module constant NEEDS_MANIFEST.
NEEDS_MANIFEST == [text |-> "NEEDS_MANIFEST", id |-> 0]
PENDING == "PENDING"
SUCCESS == "SUCCESS"
FAILED == "FAILED"

\* a == b, for two string objects
IsByValue(a, b) == a.text = b.text

\* a is b, for two string objects
Is(a, b) == a.id = b.id

(***************************************************************************)
(* String operations.                                                      *)
(***************************************************************************)
MaxOf(S) == CHOOSE m \in S : \A k \in S : k <= m
Max2(a, b) == IF a >= b THEN a ELSE b

Zeros(k) == [i \in 1..k |-> Zero]

\* str.replace(old, new) for one-character old and new
Replace(s, old, new) == [i \in 1..Len(s) |-> IF s[i] = old THEN new ELSE s[i]]

RECURSIVE SplitAcc(_, _, _, _)
SplitAcc(s, seps, cur, acc) ==
    IF s = <<>> THEN Append(acc, cur)
    ELSE IF Head(s) \in seps
         THEN SplitAcc(Tail(s), seps, <<>>, Append(acc, cur))
         ELSE SplitAcc(Tail(s), seps, Append(cur, Head(s)), acc)

\* str.split(sep) and re.split: every separator ends a (possibly empty) token
Split(s, seps) == SplitAcc(s, seps, <<>>, <<>>)

\* str.zfill(n): zeros on the left, after a leading sign
zfill(x, n) ==
    IF Len(x) >= n THEN x
    ELSE IF Len(x) > 0 /\ Head(x) \in {Plus, Dash}
         THEN <<Head(x)>> \o Zeros(n - Len(x)) \o Tail(x)
         ELSE Zeros(n - Len(x)) \o x

\* a < b for two strings: by code point, a proper prefix is smaller
RECURSIVE StrLt(_, _)
StrLt(a, b) ==
    IF b = <<>> THEN FALSE
    ELSE IF a = <<>> THEN TRUE
    ELSE IF Head(a) # Head(b) THEN Head(a) < Head(b)
    ELSE StrLt(Tail(a), Tail(b))

\* a < b for two tuples of strings
RECURSIVE TupleLt(_, _)
TupleLt(a, b) ==
    IF b = <<>> THEN FALSE
    ELSE IF a = <<>> THEN TRUE
    ELSE IF Head(a) # Head(b) THEN StrLt(Head(a), Head(b))
    ELSE TupleLt(Tail(a), Tail(b))

\* pad_none(iterable, length)
pad_none(iterable, length) == iterable \o [i \in 1..(length - Len(iterable)) |-> None]

\* what an f-string writes for a token
Fmt(x) == IF x = None THEN NoneText ELSE x

\* the truth value of a token: None and "" are false
Truthy(x) == x # None /\ x # <<>>

(***************************************************************************)
(* LooseVersion.                                                           *)
(***************************************************************************)
LooseVersion(s) ==
    LET vs == Split(s, SPLIT_VERSION_REGEX)
    IN  [vs |-> vs, n |-> MaxOf({Len(vs[i]) : i \in 1..Len(vs)})]

Padded(v, n) == [i \in 1..Len(v.vs) |-> zfill(v.vs[i], n)]

\* a comparison that pads the segments of both operands to the longest
\* segment of the left one
cmp_lt_self_width(self, other) == TupleLt(Padded(self, self.n), Padded(other, self.n))

\* LooseVersion.__lt__
cmp_lt(self, other) ==
    LET n == Max2(self.n, other.n)
    IN  TupleLt(Padded(self, n), Padded(other, n))

KeyLt(a, b) == cmp_lt(LooseVersion(a), LooseVersion(b))

(***************************************************************************)
(* The tag state: a dict, kept as the sequence of its items in insertion   *)
(* order.                                                                  *)
(***************************************************************************)
Item(k, d, s) == [key |-> k, digest |-> d, status |-> s]

Keys(ts) == {ts[i].key : i \in 1..Len(ts)}
Has(ts, k) == \E i \in 1..Len(ts) : ts[i].key = k
Pos(ts, k) == CHOOSE i \in 1..Len(ts) : ts[i].key = k
Get(ts, k) == ts[Pos(ts, k)]

\* d[k] = {"digest": ..., "status": ...}: a new key goes last, an old key keeps its place
SetItem(ts, k, d, s) ==
    IF Has(ts, k) THEN [ts EXCEPT ![Pos(ts, k)] = Item(k, d, s)]
    ELSE Append(ts, Item(k, d, s))

\* d[k]["digest"] = ...
SetDigest(ts, k, d) == [ts EXCEPT ![Pos(ts, k)].digest = d]

\* an insertion that puts x before the elements that compare equal to it
RECURSIVE InsertSortedUnstable(_, _)
InsertSortedUnstable(sorted, x) ==
    IF sorted = <<>> THEN <<x>>
    ELSE IF ~cmp_lt(sorted[Len(sorted)].k, x.k)
         THEN Append(InsertSortedUnstable(SubSeq(sorted, 1, Len(sorted) - 1), x), sorted[Len(sorted)])
         ELSE Append(sorted, x)

\* sorted(): x goes after every element that is not greater than it
RECURSIVE InsertSorted(_, _)
InsertSorted(sorted, x) ==
    IF sorted = <<>> THEN <<x>>
    ELSE IF cmp_lt(x.k, sorted[Len(sorted)].k)
         THEN Append(InsertSorted(SubSeq(sorted, 1, Len(sorted) - 1), x), sorted[Len(sorted)])
         ELSE Append(sorted, x)

RECURSIVE SortItems(_)
SortItems(items) ==
    IF items = <<>> THEN <<>>
    ELSE InsertSorted(SortItems(SubSeq(items, 1, Len(items) - 1)), items[Len(items)])

\* dict(sorted(d.items(), key=lambda i: LooseVersion(i[0]))): the key of each
\* item is computed once, the items are sorted by it and keep their values
Decorate(d) == [i \in 1..Len(d) |-> [item |-> d[i], k |-> LooseVersion(d[i].key)]]
Undecorate(s) == [i \in 1..Len(s) |-> s[i].item]
\* a result that keeps the insertion order of the dict
semver_sorted_dict_unsorted(d) == d

semver_sorted_dict(d) == Undecorate(SortItems(Decorate(d)))

(***************************************************************************)
(* build_tag_state.                                                        *)
(***************************************************************************)
IsValid(entry) == "container_hash" \in DOMAIN entry /\ "version" \in DOMAIN entry

Tokens(version) == pad_none(Split(Replace(version, Dot, Dash), {Dash}), 4)
ManifestSemver(t) == Fmt(t[1]) \o <<Dot>> \o Fmt(t[2]) \o <<Dot>> \o Fmt(t[3])
MediumTag(t) == Fmt(t[1]) \o <<Dot>> \o Fmt(t[2])

\* the arch branch without the write of manifest_semver
ArchBranchNoSemver(ts, version, digest, t) ==
    LET t1 == SetItem(ts, version, digest, PENDING)
        t2 == SetItem(t1, t[1], NEEDS_MANIFEST, PENDING)
    IN  SetItem(t2, MediumTag(t), NEEDS_MANIFEST, PENDING)

\* d.setdefault(k, {"digest": ..., "status": ...})
SetIfAbsent(ts, k, d, s) == IF Has(ts, k) THEN ts ELSE Append(ts, Item(k, d, s))

\* the arch branch with ancestors that keep the entry they have
ArchBranchKeepConcrete(ts, version, digest, t) ==
    LET t1 == SetItem(ts, version, digest, PENDING)
        t2 == SetIfAbsent(t1, t[1], NEEDS_MANIFEST, PENDING)
        t3 == SetIfAbsent(t2, MediumTag(t), NEEDS_MANIFEST, PENDING)
    IN  SetIfAbsent(t3, ManifestSemver(t), NEEDS_MANIFEST, PENDING)

\* the arch branch with a major tag that keeps the entry it has
ArchBranchKeepMajor(ts, version, digest, t) ==
    LET t1 == SetItem(ts, version, digest, PENDING)
        t2 == SetIfAbsent(t1, t[1], NEEDS_MANIFEST, PENDING)
        t3 == SetItem(t2, MediumTag(t), NEEDS_MANIFEST, PENDING)
    IN  SetItem(t3, ManifestSemver(t), NEEDS_MANIFEST, PENDING)

\* the branch for a record with an arch suffix
ArchBranch(ts, version, digest, t) ==
    LET t1 == SetItem(ts, version, digest, PENDING)
        t2 == SetItem(t1, t[1], NEEDS_MANIFEST, PENDING)
        t3 == SetItem(t2, MediumTag(t), NEEDS_MANIFEST, PENDING)
    IN  SetItem(t3, ManifestSemver(t), NEEDS_MANIFEST, PENDING)

\* no update of the major or the minor tag
AdvanceNever(ts, k, semver, digest) == ts

\* the update of the major or the minor tag by a rebuild of a known patch version
AdvanceIfPrevious(ts, k, semver, digest) ==
    IF Is(Get(ts, k).digest, Get(ts, semver).digest) THEN SetDigest(ts, k, digest) ELSE ts

\* a rebuild branch that gives the new digest to every entry that holds the
\* previous digest of the patch tag
RebuildBranchAdvancesAll(ts, digest, t) ==
    LET previous == Get(ts, ManifestSemver(t)).digest
        t1 == [i \in 1..Len(ts) |->
                  IF Is(ts[i].digest, previous) THEN [ts[i] EXCEPT !.digest = digest] ELSE ts[i]]
    IN  SetItem(t1, ManifestSemver(t), digest, PENDING)

\* the rebuild branch without the write of manifest_semver
RebuildBranchKeepSemver(ts, digest, t) ==
    LET t1 == AdvanceIfPrevious(ts, t[1], ManifestSemver(t), digest)
    IN  AdvanceIfPrevious(t1, MediumTag(t), ManifestSemver(t), digest)

\* the branch for a record without arch suffix whose patch version is in the state
RebuildBranch(ts, digest, t) ==
    LET t1 == AdvanceIfPrevious(ts, t[1], ManifestSemver(t), digest)
        t2 == AdvanceIfPrevious(t1, MediumTag(t), ManifestSemver(t), digest)
    IN  SetItem(t2, ManifestSemver(t), digest, PENDING)

\* the branch for a record without arch suffix whose patch version is new
FirstBuildBranch(ts, digest, t) ==
    LET t1 == SetItem(ts, t[1], digest, PENDING)
        t2 == SetItem(t1, MediumTag(t), digest, PENDING)
    IN  SetItem(t2, ManifestSemver(t), digest, PENDING)

\* an invalid-record branch that enters the version of a record without hash
InvalidBranchKeepsVersion(ts, entry) ==
    IF "version" \in DOMAIN entry THEN SetItem(ts, entry.version, NEEDS_MANIFEST, PENDING) ELSE ts

\* the branch for a record without container_hash or without version: a
\* line on stderr
InvalidBranch(ts, entry) == ts

\* one iteration of the loop over buildlog_data; id names the string object
\* that json.loads made for this entry's container_hash
process_entry(ts, entry, id) ==
    IF IsValid(entry)
    THEN LET version == entry.version
             digest == [text |-> entry.container_hash, id |-> id]
             t == Tokens(version)
         IN  IF Truthy(t[4]) THEN ArchBranch(ts, version, digest, t)
             ELSE IF Has(ts, ManifestSemver(t)) THEN RebuildBranch(ts, digest, t)
             ELSE FirstBuildBranch(ts, digest, t)
    ELSE InvalidBranch(ts, entry)

RECURSIVE FoldLog(_, _)
FoldLog(data, k) ==
    IF k = 0 THEN <<>> ELSE process_entry(FoldLog(data, k - 1), data[k], k)

build_tag_state(buildlog_data) == semver_sorted_dict(FoldLog(buildlog_data, Len(buildlog_data)))

(***************************************************************************)
(* What the program prints: each print is one element of stdout or stderr, *)
(* with the name of what is printed and the value.                         *)
(***************************************************************************)
Line(what, value) == [what |-> what, value |-> value]

\* the line on stderr for a record without container_hash or without version
InvalidEntryLines(entry) ==
    IF IsValid(entry) THEN <<>> ELSE <<Line("entry without container hash", entry)>>

\* the lines on stderr of a whole reduction
RECURSIVE InvalidLines(_)
InvalidLines(data) ==
    IF data = <<>> THEN <<>> ELSE InvalidEntryLines(Head(data)) \o InvalidLines(Tail(data))

\* no comparison of version strings is under way
NoCmp == <<>>

(***************************************************************************)
(* The reduction, one build record at a time.                              *)
(***************************************************************************)
NoReports == [succeeded |-> <<>>, failed |-> <<>>, needs_manifest |-> <<>>]

Init ==
    /\ log = <<>>
    /\ tag_state = <<>>
    /\ pc = "reduce"
    /\ pos = 0
    /\ ops = <<>>
    /\ reports = NoReports
    /\ path_exists = TRUE
    /\ stdout = <<>>
    /\ stderr = <<>>
    /\ cmp = NoCmp

ProcessEntry ==
    /\ pc = "reduce"
    /\ Len(log) < MaxLog
    /\ \E entry \in Records :
         /\ log' = Append(log, entry)
         /\ tag_state' = process_entry(tag_state, entry, Len(log) + 1)
         /\ stderr' = stderr \o InvalidEntryLines(entry)
    /\ UNCHANGED <<pc, pos, ops, reports, path_exists, stdout, cmp>>

ReturnSorted ==
    /\ pc = "reduce"
    /\ tag_state' = semver_sorted_dict(tag_state)
    /\ pc' = "sorted"
    /\ UNCHANGED <<log, pos, ops, reports, path_exists, stdout, stderr, cmp>>

Next == ProcessEntry \/ ReturnSorted

Spec == Init /\ [][Next]_vars

(***************************************************************************)
(* The synchronisation with the registry: the tag and push loop, the three *)
(* reports and the manifest loop of the main block, run on the tag state   *)
(* of a build log.  ops is the list of the docker commands run so far,     *)
(* each with the return code it gave.                                      *)
(***************************************************************************)
ReturnCodes == {0, 1}

Call(cmd, key, digest, srcs, rc) == [cmd |-> cmd, key |-> key, digest |-> digest, srcs |-> srcs, rc |-> rc]

\* the build records of the logs that are synchronised: those of minor
\* version 2, and the invalid ones
SyncRecords ==
    {e \in ValidRecords : MediumTag(Tokens(e.version)) = Tok1 \o <<Dot>> \o Tok2} \cup InvalidRecords
Logs == UNION {[1..n -> SyncRecords] : n \in 0..MaxSyncLog}

InitSync ==
    /\ log \in Logs
    /\ tag_state = build_tag_state(log)
    /\ pc = "tag_push"
    /\ pos = 1
    /\ ops = <<>>
    /\ reports = NoReports
    /\ path_exists = TRUE
    /\ stdout = <<Line("tag_state", tag_state)>>
    /\ stderr = InvalidLines(log)
    /\ cmp = NoCmp

\* the docker commands of one iteration of the tag and push loop
TagPushCalls(key, digest, pull_rc, tag_rc, push_rc) ==
    <<Call("pull", key, digest.text, <<>>, pull_rc)>>
    \o (IF pull_rc = 0 THEN <<Call("tag", key, digest.text, <<>>, tag_rc)>> ELSE <<>>)
    \o (IF pull_rc = 0 /\ tag_rc = 0 THEN <<Call("push", key, "", <<>>, push_rc)>> ELSE <<>>)

\* a status that does not look at the return code of the push
TagPushStatusIgnoresPush(pull_rc, tag_rc, push_rc) ==
    IF pull_rc = 0 /\ tag_rc = 0 THEN SUCCESS ELSE FAILED

\* the status the iteration leaves in the entry
TagPushStatus(pull_rc, tag_rc, push_rc) ==
    IF pull_rc = 0 /\ tag_rc = 0 /\ push_rc = 0 THEN SUCCESS ELSE FAILED

\* an iteration that ends the tag and push loop when one of its commands fails
TagAndPushStopsAtFailure ==
    /\ pc = "tag_push"
    /\ pos <= Len(tag_state)
    /\ ~Is(tag_state[pos].digest, NEEDS_MANIFEST)
    /\ \E pull_rc, tag_rc, push_rc \in ReturnCodes :
         /\ ops' = ops \o TagPushCalls(tag_state[pos].key, tag_state[pos].digest, pull_rc, tag_rc, push_rc)
         /\ tag_state' = [tag_state EXCEPT ![pos].status = TagPushStatus(pull_rc, tag_rc, push_rc)]
         /\ pos' = IF TagPushStatus(pull_rc, tag_rc, push_rc) = SUCCESS THEN pos + 1 ELSE Len(tag_state) + 1
    /\ UNCHANGED <<log, pc, reports, path_exists, stdout, stderr, cmp>>

\* one iteration of the tag and push loop, on an entry with a concrete digest
TagAndPush ==
    /\ pc = "tag_push"
    /\ pos <= Len(tag_state)
    /\ ~Is(tag_state[pos].digest, NEEDS_MANIFEST)
    /\ \E pull_rc, tag_rc, push_rc \in ReturnCodes :
         /\ ops' = ops \o TagPushCalls(tag_state[pos].key, tag_state[pos].digest, pull_rc, tag_rc, push_rc)
         /\ tag_state' = [tag_state EXCEPT ![pos].status = TagPushStatus(pull_rc, tag_rc, push_rc)]
    /\ pos' = pos + 1
    /\ UNCHANGED <<log, pc, reports, path_exists, stdout, stderr, cmp>>

\* an iteration that marks the entry that needs a manifest FAILED
SkipPlaceholderMarksFailed ==
    /\ pc = "tag_push"
    /\ pos <= Len(tag_state)
    /\ Is(tag_state[pos].digest, NEEDS_MANIFEST)
    /\ tag_state' = [tag_state EXCEPT ![pos].status = FAILED]
    /\ pos' = pos + 1
    /\ UNCHANGED <<log, pc, ops, reports, path_exists, stdout, stderr, cmp>>

\* one iteration of the tag and push loop, on an entry that needs a manifest
SkipPlaceholder ==
    /\ pc = "tag_push"
    /\ pos <= Len(tag_state)
    /\ Is(tag_state[pos].digest, NEEDS_MANIFEST)
    /\ pos' = pos + 1
    /\ UNCHANGED <<log, tag_state, pc, ops, reports, path_exists, stdout, stderr, cmp>>

\* {k: v["digest"] for k, v in items}
DigestsOf(items) == [i \in 1..Len(items) |-> [key |-> items[i].key, digest |-> items[i].digest]]

IsSucceeded(item) == item.status = SUCCESS
IsFailed(item) == item.status = FAILED
NeedsManifest(item) == Is(item.digest, NEEDS_MANIFEST)

\* the prints of the reports: successfully_tagged and needs_manifest on
\* stdout, failed_tags on stderr
ReportsOut(r) == <<Line("successfully_tagged", r.succeeded), Line("needs_manifest", r.needs_manifest)>>
ReportsErr(r) == <<Line("failed_tags", r.failed)>>

\* successfully_tagged, failed_tags and needs_manifest
ReportsOf(ts) ==
    [succeeded |-> DigestsOf(SelectSeq(ts, IsSucceeded)),
     failed |-> DigestsOf(SelectSeq(ts, IsFailed)),
     needs_manifest |-> DigestsOf(SelectSeq(ts, NeedsManifest))]

\* the end of the tag and push loop: the three reports
PrintReports ==
    /\ pc = "tag_push"
    /\ pos > Len(tag_state)
    /\ reports' = ReportsOf(tag_state)
    /\ stdout' = stdout \o ReportsOut(reports')
    /\ stderr' = stderr \o ReportsErr(reports')
    /\ pc' = "manifest"
    /\ pos' = 1
    /\ UNCHANGED <<log, tag_state, ops, path_exists, cmp>>

ArmSuffix == <<Dash>> \o Arm64
AmdSuffix == <<Dash>> \o Amd64

\* the commands of an iteration that annotates without looking at the return
\* code of the manifest create
ManifestCallsAnnotateUnchecked(key, t, rc) ==
    LET arm == key \o ArmSuffix
        amd == key \o AmdSuffix
        major_manifest_name == Fmt(t[1])
        minor_manifest_name == Fmt(t[1]) \o <<Dot>> \o Fmt(t[2])
    IN  <<Call("manifest create", key, "", <<arm, amd>>, rc[1]),
          Call("manifest annotate arm64", key, "", <<arm>>, rc[2]),
          Call("manifest annotate amd64", key, "", <<amd>>, rc[3])>>
        \o (IF rc[1] = 0 /\ rc[2] = 0 /\ rc[3] = 0
            THEN <<Call("manifest create", major_manifest_name, "", <<arm, amd>>, rc[4]),
                   Call("manifest create", minor_manifest_name, "", <<arm, amd>>, rc[5]),
                   Call("manifest push", key, "", <<>>, rc[6]),
                   Call("manifest push", major_manifest_name, "", <<>>, rc[7]),
                   Call("manifest push", minor_manifest_name, "", <<>>, rc[8])>>
            ELSE <<>>)

\* the commands of an iteration that goes on to the ancestor manifests and
\* the pushes without looking at the return codes of the annotations
ManifestCallsIgnoresAnnotate(key, t, rc) ==
    LET arm == key \o ArmSuffix
        amd == key \o AmdSuffix
        major_manifest_name == Fmt(t[1])
        minor_manifest_name == Fmt(t[1]) \o <<Dot>> \o Fmt(t[2])
    IN  <<Call("manifest create", key, "", <<arm, amd>>, rc[1])>>
        \o (IF rc[1] = 0
            THEN <<Call("manifest annotate arm64", key, "", <<arm>>, rc[2]),
                   Call("manifest annotate amd64", key, "", <<amd>>, rc[3]),
                   Call("manifest create", major_manifest_name, "", <<arm, amd>>, rc[4]),
                   Call("manifest create", minor_manifest_name, "", <<arm, amd>>, rc[5]),
                   Call("manifest push", key, "", <<>>, rc[6]),
                   Call("manifest push", major_manifest_name, "", <<>>, rc[7]),
                   Call("manifest push", minor_manifest_name, "", <<>>, rc[8])>>
            ELSE <<>>)

\* the commands of an iteration that pushes the manifests of the ancestor
\* tags before the manifest of the tag itself
ManifestCallsPushPatchLast(key, t, rc) ==
    LET arm == key \o ArmSuffix
        amd == key \o AmdSuffix
        major_manifest_name == Fmt(t[1])
        minor_manifest_name == Fmt(t[1]) \o <<Dot>> \o Fmt(t[2])
    IN  <<Call("manifest create", key, "", <<arm, amd>>, rc[1])>>
        \o (IF rc[1] = 0
            THEN <<Call("manifest annotate arm64", key, "", <<arm>>, rc[2]),
                   Call("manifest annotate amd64", key, "", <<amd>>, rc[3])>>
            ELSE <<>>)
        \o (IF rc[1] = 0 /\ rc[2] = 0 /\ rc[3] = 0
            THEN <<Call("manifest create", major_manifest_name, "", <<arm, amd>>, rc[4]),
                   Call("manifest create", minor_manifest_name, "", <<arm, amd>>, rc[5]),
                   Call("manifest push", major_manifest_name, "", <<>>, rc[7]),
                   Call("manifest push", minor_manifest_name, "", <<>>, rc[8]),
                   Call("manifest push", key, "", <<>>, rc[6])>>
            ELSE <<>>)

\* the docker commands of one iteration of the manifest loop for a key with a
\* patch token, given the return codes of the eight commands it may run
ManifestCalls(key, t, rc) ==
    LET arm == key \o ArmSuffix
        amd == key \o AmdSuffix
        major_manifest_name == Fmt(t[1])
        minor_manifest_name == Fmt(t[1]) \o <<Dot>> \o Fmt(t[2])
    IN  <<Call("manifest create", key, "", <<arm, amd>>, rc[1])>>
        \o (IF rc[1] = 0
            THEN <<Call("manifest annotate arm64", key, "", <<arm>>, rc[2]),
                   Call("manifest annotate amd64", key, "", <<amd>>, rc[3])>>
            ELSE <<>>)
        \o (IF rc[1] = 0 /\ rc[2] = 0 /\ rc[3] = 0
            THEN <<Call("manifest create", major_manifest_name, "", <<arm, amd>>, rc[4]),
                   Call("manifest create", minor_manifest_name, "", <<arm, amd>>, rc[5]),
                   Call("manifest push", key, "", <<>>, rc[6]),
                   Call("manifest push", major_manifest_name, "", <<>>, rc[7]),
                   Call("manifest push", minor_manifest_name, "", <<>>, rc[8])>>
            ELSE <<>>)

\* one iteration of the manifest loop
ManifestTag ==
    /\ pc = "manifest"
    /\ pos <= Len(reports.needs_manifest)
    /\ LET key == reports.needs_manifest[pos].key
           t == pad_none(Split(key, {Dot}), 3)
       IN  IF Truthy(t[3])
           THEN \E rc \in [1..8 -> ReturnCodes] : ops' = ops \o ManifestCalls(key, t, rc)
           ELSE ops' = ops
    /\ pos' = pos + 1
    /\ UNCHANGED <<log, tag_state, pc, reports, path_exists, stdout, stderr, cmp>>

\* the end of the manifest loop and of the run
Finish ==
    /\ pc = "manifest"
    /\ pos > Len(reports.needs_manifest)
    /\ pc' = "done"
    /\ UNCHANGED <<log, tag_state, pos, ops, reports, path_exists, stdout, stderr, cmp>>

NextSync == TagAndPush \/ SkipPlaceholder \/ PrintReports \/ ManifestTag \/ Finish

SpecSync == InitSync /\ [][NextSync]_vars

(***************************************************************************)
(* The comparison of version keys, on three version strings of up to       *)
(* MaxSegments segments.                                                   *)
(***************************************************************************)
Tok9 == <<57>>
TokA1 == <<97, 49>>
CmpTokens == {Tok9, Tok10, TokA1}

\* the segments joined by dots
RECURSIVE Join(_)
Join(segs) == IF Len(segs) = 1 THEN segs[1] ELSE segs[1] \o <<Dot>> \o Join(Tail(segs))

CmpVersions == {Join(segs) : segs \in UNION {[1..n -> CmpTokens] : n \in 1..MaxSegments}}

InitCmp ==
    /\ cmp \in {[a |-> a, b |-> b, c |-> c, lt |-> <<>>] : a \in CmpVersions, b \in CmpVersions, c \in CmpVersions}
    /\ log = <<>>
    /\ tag_state = <<>>
    /\ pc = "compare"
    /\ pos = 0
    /\ ops = <<>>
    /\ reports = NoReports
    /\ path_exists = TRUE
    /\ stdout = <<>>
    /\ stderr = <<>>

\* LooseVersion(a) < LooseVersion(b), LooseVersion(b) < LooseVersion(c) and
\* LooseVersion(a) < LooseVersion(c)
Compare ==
    /\ pc = "compare"
    /\ cmp' = [cmp EXCEPT !.lt = <<KeyLt(cmp.a, cmp.b), KeyLt(cmp.b, cmp.c), KeyLt(cmp.a, cmp.c)>>]
    /\ pc' = "compared"
    /\ UNCHANGED <<log, tag_state, pos, ops, reports, path_exists, stdout, stderr>>

NextCmp == Compare

SpecCmp == InitCmp /\ [][NextCmp]_vars

(***************************************************************************)
(* The whole run of the main block, from the read of the build log file.   *)
(* log is the content of the file, if there is one.                        *)
(***************************************************************************)
InitMain ==
    /\ path_exists \in BOOLEAN
    /\ log \in (IF path_exists THEN Logs ELSE {<<>>})
    /\ tag_state = <<>>
    /\ pc = "read"
    /\ pos = 0
    /\ ops = <<>>
    /\ reports = NoReports
    /\ stdout = <<>>
    /\ stderr = <<>>
    /\ cmp = NoCmp

\* read_buildlog_file: the data of the file, or a line on stderr and None
ReadBuildlogFile ==
    /\ pc = "read"
    /\ IF path_exists
       THEN pc' = "build" /\ stderr' = stderr
       ELSE pc' = "no_data" /\ stderr' = Append(stderr, Line("Buildlog not found", <<>>))
    /\ UNCHANGED <<log, tag_state, pos, ops, reports, path_exists, stdout, cmp>>

\* build_tag_state on the data of the file, and the print of its result
BuildTagState ==
    /\ pc = "build"
    /\ tag_state' = build_tag_state(log)
    /\ stderr' = stderr \o InvalidLines(log)
    /\ stdout' = Append(stdout, Line("tag_state", tag_state'))
    /\ pc' = "tag_push"
    /\ pos' = 1
    /\ UNCHANGED <<log, ops, reports, path_exists, cmp>>

\* a build_tag_state that takes None for a build log without records
IterateNoneAsEmpty ==
    /\ pc = "no_data"
    /\ tag_state' = build_tag_state(<<>>)
    /\ stdout' = Append(stdout, Line("tag_state", tag_state'))
    /\ pc' = "tag_push"
    /\ pos' = 1
    /\ UNCHANGED <<log, ops, reports, path_exists, stderr, cmp>>

\* build_tag_state on None: the for loop raises TypeError, nothing catches
\* it, and the interpreter ends the run with the traceback on stderr
IterateNone ==
    /\ pc = "no_data"
    /\ stderr' = Append(stderr, Line("Traceback", "TypeError"))
    /\ pc' = "crashed"
    /\ UNCHANGED <<log, tag_state, pos, ops, reports, path_exists, stdout, cmp>>

NextMain ==
    \/ ReadBuildlogFile \/ BuildTagState \/ IterateNone
    \/ TagAndPush \/ SkipPlaceholder \/ PrintReports \/ ManifestTag \/ Finish

SpecMain == InitMain /\ [][NextMain]_vars

(***************************************************************************)
(* The manifest loop after a tag and push loop in which every pull, tag    *)
(* and push returned 0, for the logs of up to MaxManifestLog records.      *)
(***************************************************************************)
\* the build records of these logs: those of the synchronised logs that are
\* invalid or have the hash "aaa"
ManifestRecords == {e \in SyncRecords : IsValid(e) => e.container_hash = "aaa"}
ManifestLogs == UNION {[1..n -> ManifestRecords] : n \in 0..MaxManifestLog}

\* the tag state after a tag and push loop whose commands all returned 0
AllPushed(ts) ==
    [i \in 1..Len(ts) |->
        IF Is(ts[i].digest, NEEDS_MANIFEST) THEN ts[i]
        ELSE [ts[i] EXCEPT !.status = TagPushStatus(0, 0, 0)]]

\* the commands of that loop for the first k entries
RECURSIVE AllPushedOps(_, _)
AllPushedOps(ts, k) ==
    IF k = 0 THEN <<>>
    ELSE AllPushedOps(ts, k - 1)
         \o (IF Is(ts[k].digest, NEEDS_MANIFEST) THEN <<>>
             ELSE TagPushCalls(ts[k].key, ts[k].digest, 0, 0, 0))

InitManifest ==
    /\ log \in ManifestLogs
    /\ \E ts \in {build_tag_state(log)} :
         /\ tag_state = AllPushed(ts)
         /\ ops = AllPushedOps(ts, Len(ts))
         /\ reports = ReportsOf(AllPushed(ts))
         /\ stdout = <<Line("tag_state", ts)>> \o ReportsOut(ReportsOf(AllPushed(ts)))
         /\ stderr = InvalidLines(log) \o ReportsErr(ReportsOf(AllPushed(ts)))
    /\ pc = "manifest"
    /\ pos = 1
    /\ path_exists = TRUE
    /\ cmp = NoCmp

NextManifest == ManifestTag \/ Finish

SpecManifest == InitManifest /\ [][NextManifest]_vars

(***************************************************************************)
(* Properties of the reduction.                                            *)
(***************************************************************************)
IsArchRecord(e) == IsValid(e) /\ Truthy(Tokens(e.version)[4])
IsPatchRecord(e) == IsValid(e) /\ ~Truthy(Tokens(e.version)[4])
\* the digest object of the i-th record of the log
DigestOf(i) == [text |-> log[i].container_hash, id |-> i]
SemverOf(e) == ManifestSemver(Tokens(e.version))
MediumOf(e) == MediumTag(Tokens(e.version))
MajorOf(e) == Tokens(e.version)[1]
Items(ts) == {ts[i] : i \in 1..Len(ts)}
\* the step that processed one more record of the log
Processed == pc = "reduce" /\ log' # log
LastEntry == log'[Len(log')]
LastDigest == [text |-> LastEntry.container_hash, id |-> Len(log')]

\* C1: in every state of the reduction, every arch-specific tag
\* major.minor.patch-arch of the tag state has its three ancestor tags major,
\* major.minor and major.minor.patch in the tag state too.
C1_AncestorsPresent ==
    \A i \in 1..Len(tag_state) :
        LET t == Tokens(tag_state[i].key)
        IN  Truthy(t[4]) =>
                /\ Has(tag_state, t[1])
                /\ Has(tag_state, MediumTag(t))
                /\ Has(tag_state, ManifestSemver(t))

\* an arch-specific tag is in the state and its major tag has been given a
\* concrete digest by a later record
C1_Witness ==
    /\ Len(log) = 3
    /\ \E i \in 1..Len(tag_state) :
         LET t == Tokens(tag_state[i].key)
         IN  Truthy(t[4]) /\ Has(tag_state, t[1]) /\ ~Is(Get(tag_state, t[1]).digest, NEEDS_MANIFEST)

\* C2 as stated: after the reduction of a log, for every valid arch-specific
\* record the four tags are present and each of the ancestors M, M.m and
\* M.m.p holds NEEDS_MANIFEST unless a later non-arch record for the same
\* patch M.m.p occurs in the log.
C2_Original ==
    pc = "sorted" =>
        \A i \in 1..Len(log) :
            IsArchRecord(log[i]) =>
                /\ {log[i].version, MajorOf(log[i]), MediumOf(log[i]), SemverOf(log[i])} \subseteq Keys(tag_state)
                /\ (~\E j \in (i + 1)..Len(log) : IsPatchRecord(log[j]) /\ SemverOf(log[j]) = SemverOf(log[i]))
                       => \A k \in {MajorOf(log[i]), MediumOf(log[i]), SemverOf(log[i])} :
                              Get(tag_state, k).digest = NEEDS_MANIFEST

\* C2 amended: after the reduction of a log, for every valid arch-specific
\* record the four tags are present; M.m.p holds NEEDS_MANIFEST unless a
\* later non-arch record for the same patch occurs, M.m holds NEEDS_MANIFEST
\* unless a later non-arch record with the same major.minor occurs, and M
\* holds NEEDS_MANIFEST unless a later non-arch record with the same major
\* occurs.
C2_Amended ==
    pc = "sorted" =>
        \A i \in 1..Len(log) :
            IsArchRecord(log[i]) =>
                /\ {log[i].version, MajorOf(log[i]), MediumOf(log[i]), SemverOf(log[i])} \subseteq Keys(tag_state)
                /\ (~\E j \in (i + 1)..Len(log) : IsPatchRecord(log[j]) /\ SemverOf(log[j]) = SemverOf(log[i]))
                       => Get(tag_state, SemverOf(log[i])).digest = NEEDS_MANIFEST
                /\ (~\E j \in (i + 1)..Len(log) : IsPatchRecord(log[j]) /\ MediumOf(log[j]) = MediumOf(log[i]))
                       => Get(tag_state, MediumOf(log[i])).digest = NEEDS_MANIFEST
                /\ (~\E j \in (i + 1)..Len(log) : IsPatchRecord(log[j]) /\ MajorOf(log[j]) = MajorOf(log[i]))
                       => Get(tag_state, MajorOf(log[i])).digest = NEEDS_MANIFEST

\* an arch-specific record is followed by a non-arch record of another patch
\* of the same major.minor: M.m.p is a placeholder, M.m is not
C2_Witness ==
    /\ pc = "sorted"
    /\ \E i \in 1..Len(log) :
         /\ IsArchRecord(log[i])
         /\ Get(tag_state, SemverOf(log[i])).digest = NEEDS_MANIFEST
         /\ Get(tag_state, MediumOf(log[i])).digest # NEEDS_MANIFEST
         /\ \E j \in (i + 1)..Len(log) :
              IsPatchRecord(log[j]) /\ MediumOf(log[j]) = MediumOf(log[i]) /\ SemverOf(log[j]) # SemverOf(log[i])

\* the log is one or more arch-specific records of one patch version, with
\* distinct versions, followed by one non-arch record of that patch version
ArchsThenPatch ==
    /\ Len(log) >= 2
    /\ IsPatchRecord(log[Len(log)])
    /\ \A i \in 1..(Len(log) - 1) :
         IsArchRecord(log[i]) /\ SemverOf(log[i]) = log[Len(log)].version
    /\ \A i, j \in 1..(Len(log) - 1) : i # j => log[i].version # log[j].version

\* C3: for a log of one or more arch-specific records of one patch version
\* M.m.p followed by one non-arch record for M.m.p with digest d, the
\* reduction yields exactly M, M.m and M.m.p with d and PENDING and each
\* M.m.p-arch tag with the digest of its own record.
C3_ArchsThenPatchResult ==
    (pc = "sorted" /\ ArchsThenPatch) =>
        LET n == Len(log)
            expected ==
                {Item(k, DigestOf(n), PENDING) : k \in {MajorOf(log[n]), MediumOf(log[n]), SemverOf(log[n])}}
                \cup {Item(log[i].version, DigestOf(i), PENDING) : i \in 1..(n - 1)}
        IN  Items(tag_state) = expected /\ Len(tag_state) = Cardinality(expected)

\* two arch-specific records and the non-arch record have been reduced
C3_Witness == pc = "sorted" /\ ArchsThenPatch /\ Len(log) = 3 /\ Len(tag_state) = 5

\* C4: when a non-arch record for a patch tag that is already in the state is
\* processed, the digest of M (and of M.m) becomes the record's digest if its
\* current digest is the same object as the current digest of M.m.p, and is
\* left as it is otherwise, also when the two digests have equal text.
C4_AdvanceByIdentity ==
    [][(Processed /\ IsPatchRecord(LastEntry) /\ Has(tag_state, SemverOf(LastEntry))) =>
          \A k \in {MajorOf(LastEntry), MediumOf(LastEntry)} :
              IF Get(tag_state, k).digest.id = Get(tag_state, SemverOf(LastEntry)).digest.id
              THEN Get(tag_state', k).digest = LastDigest
              ELSE Get(tag_state', k).digest = Get(tag_state, k).digest]_vars

\* patch version p is built, then another patch version with the same hash
\* text, then p again: the major tag keeps the digest of the second record
C4_Witness ==
    /\ pc = "reduce" /\ Len(log) = 3
    /\ \A i \in 1..3 : IsPatchRecord(log[i])
    /\ SemverOf(log[1]) = SemverOf(log[3]) /\ SemverOf(log[2]) # SemverOf(log[1])
    /\ MediumOf(log[1]) = MediumOf(log[2])
    /\ log[1].container_hash = log[2].container_hash
    /\ Get(tag_state, MajorOf(log[3])).digest = DigestOf(2)
    /\ Get(tag_state, MediumOf(log[3])).digest = DigestOf(2)
    /\ Get(tag_state, SemverOf(log[3])).digest = DigestOf(3)

\* C5: right after a valid non-arch record with version M.m.p and digest d is
\* processed the entry of M.m.p is {d, PENDING}; if M.m.p was not in the state
\* before, the entries of M and M.m are {d, PENDING} as well.
C5_PatchRecordSetsSemver ==
    [][(Processed /\ IsPatchRecord(LastEntry)) =>
          /\ Has(tag_state', SemverOf(LastEntry))
          /\ Get(tag_state', SemverOf(LastEntry)) = Item(SemverOf(LastEntry), LastDigest, PENDING)
          /\ ~Has(tag_state, SemverOf(LastEntry)) =>
                 /\ Get(tag_state', MajorOf(LastEntry)) = Item(MajorOf(LastEntry), LastDigest, PENDING)
                 /\ Get(tag_state', MediumOf(LastEntry)) = Item(MediumOf(LastEntry), LastDigest, PENDING)]_vars

\* a non-arch record has replaced the concrete digest that an earlier
\* non-arch record gave to the same patch tag
C5_Witness ==
    /\ pc = "reduce" /\ Len(log) >= 2
    /\ IsPatchRecord(log[Len(log)]) /\ IsPatchRecord(log[Len(log) - 1])
    /\ SemverOf(log[Len(log)]) = SemverOf(log[Len(log) - 1])
    /\ log[Len(log)].container_hash # log[Len(log) - 1].container_hash
    /\ Get(tag_state, SemverOf(log[Len(log)])).digest = DigestOf(Len(log))

\* C6: right after a valid arch-specific record with version M.m.p-arch and
\* digest d is processed the entry of M.m.p-arch is {d, PENDING} and the
\* entries of M, M.m and M.m.p are {NEEDS_MANIFEST, PENDING}.
C6_ArchRecordResetsAncestors ==
    [][(Processed /\ IsArchRecord(LastEntry)) =>
          /\ {LastEntry.version, MajorOf(LastEntry), MediumOf(LastEntry), SemverOf(LastEntry)} \subseteq Keys(tag_state')
          /\ Get(tag_state', LastEntry.version) = Item(LastEntry.version, LastDigest, PENDING)
          /\ \A k \in {MajorOf(LastEntry), MediumOf(LastEntry), SemverOf(LastEntry)} :
                 Get(tag_state', k) = Item(k, NEEDS_MANIFEST, PENDING)]_vars

\* an arch-specific record has come after a non-arch record of its patch
\* version, which had given concrete digests to the three ancestors
C6_Witness ==
    /\ pc = "reduce" /\ Len(log) >= 2
    /\ IsArchRecord(log[Len(log)]) /\ IsPatchRecord(log[Len(log) - 1])
    /\ SemverOf(log[Len(log)]) = SemverOf(log[Len(log) - 1])
    /\ Get(tag_state, SemverOf(log[Len(log)])).digest = NEEDS_MANIFEST

\* the valid records of a log, in order
RECURSIVE ValidOnly(_)
ValidOnly(data) ==
    IF data = <<>> THEN <<>>
    ELSE IF IsValid(Head(data)) THEN <<Head(data)>> \o ValidOnly(Tail(data))
    ELSE ValidOnly(Tail(data))

\* the tag state with every digest object named by the place of its record
\* among the valid records
Renumbered(ts) ==
    [i \in 1..Len(ts) |->
        [ts[i] EXCEPT !.digest.id =
            IF @ = 0 THEN 0 ELSE Len(ValidOnly(SubSeq(log', 1, @)))]]

\* C7: a record without version or without container_hash leaves the tag
\* state as it is, and the result of the reduction is the result of the
\* reduction of the log without its invalid records.
C7_InvalidSkipped ==
    [][/\ (Processed /\ ~IsValid(LastEntry)) => tag_state' = tag_state
       /\ (pc = "reduce" /\ pc' = "sorted") =>
              Renumbered(tag_state') = build_tag_state(ValidOnly(log'))]_vars

\* an invalid record lies between two valid ones and the log has been reduced
C7_Witness ==
    /\ pc = "sorted" /\ Len(log) = 3
    /\ IsValid(log[1]) /\ ~IsValid(log[2]) /\ IsValid(log[3])
    /\ "version" \in DOMAIN log[2]
    /\ Has(tag_state, log[3].version)

\* neither key is smaller than the other
KeyTie(a, b) == ~KeyLt(a, b) /\ ~KeyLt(b, a)

\* the version keys of the tags of a tag state, in its order
VersionKeys(ts) == [i \in 1..Len(ts) |-> LooseVersion(ts[i].key)]
\* for tags with the version keys ks, in output order, that were inserted at
\* the places p: no tag comes after a tag with a greater key, and of two tags
\* whose keys compare equal the one inserted first comes first
SortedAndStable(ks, p) ==
    \A j \in 1..Len(ks) : \A i \in 1..(j - 1) :
        /\ ~cmp_lt(ks[j], ks[i])
        /\ cmp_lt(ks[i], ks[j]) \/ p[i] < p[j]

\* C8: in the output of the reduction a tag whose version key is smaller than
\* that of another tag comes before it, and tags whose version keys compare
\* equal keep their insertion order.
C8_OutputOrdered ==
    [][(pc = "reduce" /\ pc' = "sorted") =>
          /\ Items(tag_state') = Items(tag_state)
          /\ Len(tag_state') = Len(tag_state)
          /\ \A ks \in {VersionKeys(tag_state')} :
                 \A p \in {[i \in 1..Len(tag_state') |-> Pos(tag_state, tag_state'[i].key)]} :
                     SortedAndStable(ks, p)]_vars

\* the output holds two tags with equal version keys, the one with the greater
\* text first, and two tags that the text order would put the other way round
C8_Witness ==
    /\ pc = "sorted"
    /\ \E i, j \in 1..Len(tag_state) :
         i < j /\ KeyTie(tag_state[i].key, tag_state[j].key) /\ StrLt(tag_state[j].key, tag_state[i].key)
    /\ \E i, j \in 1..Len(tag_state) :
         i < j /\ KeyLt(tag_state[i].key, tag_state[j].key) /\ StrLt(tag_state[j].key, tag_state[i].key)

(***************************************************************************)
(* Properties of the synchronisation.                                      *)
(***************************************************************************)
\* the pull, tag and push commands run for the entry of key k, in order
TagPushOps(k) ==
    LET OfKey(c) == c.cmd \in {"pull", "tag", "push"} /\ c.key = k
    IN  SelectSeq(ops, OfKey)
Cmds(calls) == [i \in 1..Len(calls) |-> calls[i].cmd]
\* the tag and push loop has gone past the i-th entry
Passed(i) == pc \in {"manifest", "done"} \/ (pc = "tag_push" /\ i < pos)

\* C9: an entry with a concrete digest that the tag and push loop has gone
\* past is SUCCESS if its pull, tag and push all returned 0 and FAILED
\* otherwise, and no command is run for it after one of them failed.
C9_SuccessIffAllThree ==
    \A i \in 1..Len(tag_state) :
        (Passed(i) /\ ~Is(tag_state[i].digest, NEEDS_MANIFEST)) =>
            LET calls == TagPushOps(tag_state[i].key)
            IN  /\ tag_state[i].status \in {SUCCESS, FAILED}
                /\ tag_state[i].status = SUCCESS <=>
                       (Cmds(calls) = <<"pull", "tag", "push">> /\ \A j \in 1..3 : calls[j].rc = 0)
                /\ Cmds(calls) \in {<<"pull">>, <<"pull", "tag">>, <<"pull", "tag", "push">>}
                /\ \A j \in 1..(Len(calls) - 1) : calls[j].rc = 0

\* the run is over with one entry pushed, one whose tag command failed after
\* a pull and had no push, and one whose pull failed and had no tag
C9_Witness ==
    /\ pc = "done"
    /\ \E i, j, k \in 1..Len(tag_state) :
         /\ tag_state[i].status = SUCCESS
         /\ tag_state[j].status = FAILED /\ Cmds(TagPushOps(tag_state[j].key)) = <<"pull", "tag">>
         /\ tag_state[k].status = FAILED /\ Cmds(TagPushOps(tag_state[k].key)) = <<"pull">>

FirstOp(k) ==
    IF \E c \in 1..Len(ops) : ops[c].key = k
    THEN CHOOSE c \in 1..Len(ops) : ops[c].key = k /\ \A b \in 1..(c - 1) : ops[b].key # k
    ELSE 0
Listed(report, item) ==
    \E r \in 1..Len(report) : report[r] = [key |-> item.key, digest |-> item.digest]

\* the tag and push loop is over and the reports are made
ReportsMade == pc = "manifest" /\ pos = 1

\* C11: when the tag and push loop is over and the reports are made, every
\* entry with a concrete digest has had its pull run, whatever the commands
\* of the entries before it returned; it is SUCCESS and in the succeeded
\* report only, or FAILED and in the failed report only.
C11_FailureDoesNotAbort ==
    ReportsMade =>
        \A i \in 1..Len(tag_state) :
            ~Is(tag_state[i].digest, NEEDS_MANIFEST) =>
                /\ FirstOp(tag_state[i].key) # 0
                /\ ops[FirstOp(tag_state[i].key)].cmd = "pull"
                /\ \A j \in 1..(i - 1) :
                       ~Is(tag_state[j].digest, NEEDS_MANIFEST) =>
                           FirstOp(tag_state[j].key) < FirstOp(tag_state[i].key)
                /\ tag_state[i].status \in {SUCCESS, FAILED}
                /\ Listed(reports.succeeded, tag_state[i]) <=> tag_state[i].status = SUCCESS
                /\ Listed(reports.failed, tag_state[i]) <=> tag_state[i].status = FAILED
                /\ ~Listed(reports.needs_manifest, tag_state[i])

\* the loop is over: the pull of the first entry failed, the push of the
\* second failed, and the third entry was pulled, tagged and pushed
C11_Witness ==
    /\ ReportsMade
    /\ Len(tag_state) = 3
    /\ Cmds(TagPushOps(tag_state[1].key)) = <<"pull">>
    /\ tag_state[1].status = FAILED
    /\ Cmds(TagPushOps(tag_state[2].key)) = <<"pull", "tag", "push">>
    /\ tag_state[2].status = FAILED
    /\ tag_state[3].status = SUCCESS
    /\ Len(reports.failed) = 2
    /\ Len(reports.succeeded) = 1

(***************************************************************************)
(* Properties of the manifest loop.                                        *)
(***************************************************************************)
\* the tag has a patch part: the manifest loop runs commands for it
HasPatch(key) == Truthy(pad_none(Split(key, {Dot}), 3)[3])
\* the two source tags of the manifest of a tag
SourceTags(key) == <<key \o ArmSuffix, key \o AmdSuffix>>
\* the c-th command creates the manifest of the tag from the tag's own sources
CreatesOwn(c, key) ==
    /\ ops[c].cmd = "manifest create"
    /\ ops[c].key = key
    /\ ops[c].srcs = SourceTags(key)
\* the two commands after the c-th annotate the two members of the manifest
AnnotatedAfter(c, key) ==
    /\ c + 2 <= Len(ops)
    /\ ops[c + 1] = Call("manifest annotate arm64", key, "", <<key \o ArmSuffix>>, ops[c + 1].rc)
    /\ ops[c + 2] = Call("manifest annotate amd64", key, "", <<key \o AmdSuffix>>, ops[c + 2].rc)
IsAnnotate(c) == ops[c].cmd \in {"manifest annotate arm64", "manifest annotate amd64"}

\* C12 as stated: at the end of the run, every entry that holds
\* NEEDS_MANIFEST has had a manifest create for its tag from {tag}-arm64 and
\* {tag}-amd64, followed by the annotation of the two members.
C12_Original ==
    pc = "done" =>
        \A i \in 1..Len(tag_state) :
            Is(tag_state[i].digest, NEEDS_MANIFEST) =>
                \E c \in 1..Len(ops) :
                    CreatesOwn(c, tag_state[i].key) /\ AnnotatedAfter(c, tag_state[i].key)

\* C12 amended: at the end of the run, every entry that holds NEEDS_MANIFEST
\* and whose tag has a patch part has had one manifest create for its tag
\* from {tag}-arm64 and {tag}-amd64; the two annotations follow it if it
\* returned 0 and no annotation is run for the tag if it did not.  For an
\* entry that holds NEEDS_MANIFEST and whose tag has no patch part (a major
\* or major.minor tag) no manifest is created from {tag}-arm64 and
\* {tag}-amd64 and nothing is annotated.
C12_CreateThenAnnotate ==
    pc = "done" =>
        \A i \in 1..Len(tag_state) :
            Is(tag_state[i].digest, NEEDS_MANIFEST) =>
                LET key == tag_state[i].key
                IN  IF HasPatch(key)
                    THEN \E c \in 1..Len(ops) :
                           /\ CreatesOwn(c, key)
                           /\ \A b \in 1..Len(ops) : CreatesOwn(b, key) => b = c
                           /\ ops[c].rc = 0 => AnnotatedAfter(c, key)
                           /\ ops[c].rc # 0 =>
                                  \A b \in 1..Len(ops) : ~(IsAnnotate(b) /\ ops[b].key = key)
                    ELSE \A c \in 1..Len(ops) :
                           /\ ops[c].srcs # SourceTags(key)
                           /\ ~(IsAnnotate(c) /\ ops[c].key = key)

\* the run is over: the manifest of a patch tag was created and its two
\* members annotated, and the major tag holds NEEDS_MANIFEST too
C12_Witness ==
    /\ pc = "done"
    /\ \E i, j \in 1..Len(tag_state) :
         /\ Is(tag_state[i].digest, NEEDS_MANIFEST) /\ HasPatch(tag_state[i].key)
         /\ Is(tag_state[j].digest, NEEDS_MANIFEST) /\ ~HasPatch(tag_state[j].key)
         /\ \E c \in 1..Len(ops) :
              CreatesOwn(c, tag_state[i].key) /\ ops[c].rc = 0 /\ AnnotatedAfter(c, tag_state[i].key)

\* the commands that the step of the manifest loop has run
NewOps == SubSeq(ops', Len(ops) + 1, Len(ops'))
ManifestStep == pc = "manifest" /\ pos' = pos + 1
\* every patch tag that holds NEEDS_MANIFEST has had its manifest create
AllPatchTagsCreated ==
    \A i \in 1..Len(tag_state) :
        (Is(tag_state[i].digest, NEEDS_MANIFEST) /\ HasPatch(tag_state[i].key)) =>
            \E c \in 1..Len(ops) : CreatesOwn(c, tag_state[i].key)
\* the commands of a whole iteration of the manifest loop, in the order of
\* the program
IterationCmds ==
    <<"manifest create", "manifest annotate arm64", "manifest annotate amd64",
      "manifest create", "manifest create", "manifest push", "manifest push", "manifest push">>

\* C13 as stated: in an iteration of the manifest loop no command is run
\* after one that failed, and at the end of the loop every patch tag that
\* holds NEEDS_MANIFEST has had its manifest create.
C13_Original ==
    [][/\ ManifestStep => \A c \in 1..(Len(NewOps) - 1) : NewOps[c].rc = 0
       /\ pc' = "done" => AllPatchTagsCreated']_vars

\* C13 amended: an iteration of the manifest loop for a tag with a patch
\* part runs the manifest create alone if it fails; the create and the two
\* annotations, the second whatever the first returned, if the create
\* succeeds and an annotation fails; and all eight commands, whatever the
\* ancestor creates and the pushes return, if the create and the two
\* annotations succeed.  At the end of the loop every patch tag that holds
\* NEEDS_MANIFEST has had its manifest create, whatever failed before it.
C13_AbortOnCreateOrAnnotate ==
    [][/\ (ManifestStep /\ HasPatch(reports.needs_manifest[pos].key)) =>
            /\ Len(NewOps) \in {1, 3, 8}
            /\ Cmds(NewOps) = SubSeq(IterationCmds, 1, Len(NewOps))
            /\ Len(NewOps) = 1 <=> NewOps[1].rc # 0
            /\ Len(NewOps) = 8 <=> \A c \in 1..3 : c <= Len(NewOps) /\ NewOps[c].rc = 0
       /\ pc' = "done" => AllPatchTagsCreated']_vars

\* the run is over: the manifest create of the first patch tag failed, the
\* first annotation of the second failed and the second annotation was run
C13_Witness ==
    /\ pc = "done"
    /\ \E i, j \in 1..Len(tag_state) :
         /\ i < j
         /\ \E c \in 1..Len(ops) : CreatesOwn(c, tag_state[i].key) /\ ops[c].rc # 0
         /\ \E c \in 1..Len(ops) :
              /\ CreatesOwn(c, tag_state[j].key)
              /\ AnnotatedAfter(c, tag_state[j].key)
              /\ ops[c + 1].rc # 0
              /\ Len(ops) = c + 2

(***************************************************************************)
(* Properties of the whole run.                                            *)
(***************************************************************************)
\* C14: in a run whose build log file does not exist, once the file has been
\* looked for the first line of stderr says that it was not found, and at
\* no time is anything written to stdout, a docker command run or the run
\* taken to the tag and push loop, the reports or the manifest loop: it
\* ends in the uncaught exception.
C14_MissingLogIsFatal ==
    ~path_exists =>
        /\ pc \in {"read", "no_data", "crashed"}
        /\ pc # "read" => (stderr # <<>> /\ stderr[1].what = "Buildlog not found")
        /\ stdout = <<>>
        /\ ops = <<>>
        /\ reports = NoReports

\* the run without build log file has ended in the exception
C14_Witness ==
    /\ ~path_exists
    /\ pc = "crashed"
    /\ Len(stderr) = 2

(***************************************************************************)
(* More properties of the reduction.                                       *)
(***************************************************************************)
\* the record derives the tag k as its major, major.minor or patch tag
Derives(e, k) == k \in {MajorOf(e), MediumOf(e), SemverOf(e)}
\* the place in the log of the record that last wrote the entry of the tag k:
\* the record of its digest, or the last arch-specific record that derives
\* k if the entry holds NEEDS_MANIFEST
LastWriter(k) ==
    IF Is(Get(tag_state, k).digest, NEEDS_MANIFEST)
    THEN MaxOf({i \in 1..Len(log) : IsArchRecord(log[i]) /\ Derives(log[i], k)})
    ELSE Get(tag_state, k).digest.id

\* C15: when a record without arch suffix for a patch tag that is in the
\* state is processed, a major or major.minor tag whose entry was last
\* written by a record of another patch version, an arch-specific record
\* that left NEEDS_MANIFEST in it included, keeps its entry.
C15_AdvanceOnlyOwnValue ==
    [][(Processed /\ IsPatchRecord(LastEntry) /\ Has(tag_state, SemverOf(LastEntry))) =>
          \A k \in {MajorOf(LastEntry), MediumOf(LastEntry)} :
              SemverOf(log[LastWriter(k)]) # SemverOf(LastEntry) =>
                  Get(tag_state', k) = Get(tag_state, k)]_vars

(***************************************************************************)
(* Properties of the comparison of version keys.                           *)
(***************************************************************************)
\* C16 as stated: there are version strings a, b and c with a < b and b < c
\* but not a < c (looked for, once three strings have been compared, among
\* all the version strings that are compared).
C16_Original ==
    pc = "compared" =>
        \E a \in CmpVersions, b \in CmpVersions, c \in CmpVersions :
            KeyLt(a, b) /\ KeyLt(b, c) /\ ~KeyLt(a, c)

\* C16 amended: the comparison of version keys is transitive: for version
\* strings a, b and c with a < b and b < c, a < c.
C16_Transitive ==
    pc = "compared" => ((cmp.lt[1] /\ cmp.lt[2]) => cmp.lt[3])

\* three version strings were compared, a < b and b < c, the longest
\* segment of a is shorter than that of b and c has more segments than b
C16_Witness ==
    /\ pc = "compared"
    /\ cmp.lt = <<TRUE, TRUE, TRUE>>
    /\ LooseVersion(cmp.a).n < LooseVersion(cmp.b).n
    /\ Len(LooseVersion(cmp.b).vs) < Len(LooseVersion(cmp.c).vs)

(***************************************************************************)
(* The order of the commands of the manifest loop.                         *)
(***************************************************************************)
\* the major and the major.minor tag of a patch tag
MajorName(key) == Fmt(pad_none(Split(key, {Dot}), 3)[1])
MinorName(key) == Fmt(pad_none(Split(key, {Dot}), 3)[1]) \o <<Dot>> \o Fmt(pad_none(Split(key, {Dot}), 3)[2])
\* the step is an iteration of the manifest loop whose manifest create and
\* two annotations returned 0
FullIteration ==
    /\ ManifestStep
    /\ Len(NewOps) >= 3
    /\ \A c \in 1..3 : NewOps[c].rc = 0

\* C17 as stated: in an iteration whose manifest create and annotations
\* succeed, every manifest create and every manifest push of the major and
\* of the major.minor tag comes before the push of the manifest of the patch
\* tag.
C17_Original ==
    [][FullIteration =>
          \E d \in 1..Len(NewOps) :
              /\ NewOps[d].cmd = "manifest push"
              /\ NewOps[d].key = reports.needs_manifest[pos].key
              /\ \A c \in 1..Len(NewOps) :
                     NewOps[c].key \in {MajorName(NewOps[d].key), MinorName(NewOps[d].key)} => c < d]_vars

\* C17 amended: in an iteration whose manifest create and annotations
\* succeed, the manifests of the major and of the major.minor tag are
\* created from the sources of the patch tag, then the manifest of the patch
\* tag is pushed, and then the manifests of the major and of the
\* major.minor tag are pushed.
C17_PushPatchBeforeAncestors ==
    [][FullIteration =>
          \A key \in {reports.needs_manifest[pos].key} :
              /\ Len(NewOps) = 8
              /\ NewOps[4] = Call("manifest create", MajorName(key), "", SourceTags(key), NewOps[4].rc)
              /\ NewOps[5] = Call("manifest create", MinorName(key), "", SourceTags(key), NewOps[5].rc)
              /\ NewOps[6] = Call("manifest push", key, "", <<>>, NewOps[6].rc)
              /\ NewOps[7] = Call("manifest push", MajorName(key), "", <<>>, NewOps[7].rc)
              /\ NewOps[8] = Call("manifest push", MinorName(key), "", <<>>, NewOps[8].rc)]_vars

\* the run is over and its last three commands are the pushes of the
\* manifests of a patch tag, of its major tag and of its major.minor tag
C17_Witness ==
    /\ pc = "done"
    /\ Len(ops) >= 8
    /\ \A c \in (Len(ops) - 7)..(Len(ops) - 5) : ops[c].rc = 0
    /\ \A c \in (Len(ops) - 2)..Len(ops) : ops[c].cmd = "manifest push"
    /\ HasPatch(ops[Len(ops) - 2].key)
    /\ ops[Len(ops) - 1].key = MajorName(ops[Len(ops) - 2].key)
    /\ ops[Len(ops)].key = MinorName(ops[Len(ops) - 2].key)

\* the patch tags that hold NEEDS_MANIFEST
PatchPlaceholders ==
    {tag_state[i].key : i \in {j \in 1..Len(tag_state) :
        Is(tag_state[j].digest, NEEDS_MANIFEST) /\ HasPatch(tag_state[j].key)}}
\* the manifest create and the two annotations of the patch tag returned 0
Eligible(key) ==
    \E c \in 1..Len(ops) :
        /\ CreatesOwn(c, key) /\ ops[c].rc = 0
        /\ AnnotatedAfter(c, key) /\ ops[c + 1].rc = 0 /\ ops[c + 2].rc = 0
\* the patch tag p is the greatest of those under the major or major.minor
\* tag m whose manifest create and annotations returned 0
GreatestEligible(p, m) ==
    /\ m \in {MajorName(p), MinorName(p)}
    /\ Eligible(p)
    /\ \A q \in PatchPlaceholders \ {p} :
           (Eligible(q) /\ m \in {MajorName(q), MinorName(q)}) => KeyLt(q, p)
\* the places of the manifest creates under the name m
CreatesOf(m) == {c \in 1..Len(ops) : ops[c].cmd = "manifest create" /\ ops[c].key = m}
CreatedOf(m) == {c \in CreatesOf(m) : ops[c].rc = 0}
PlaceOfCreate(key) == CHOOSE c \in 1..Len(ops) : CreatesOwn(c, key)

PushesOf(k) ==
    {c \in 1..Len(ops) : ops[c].cmd \in {"push", "manifest push"} /\ ops[c].key = k /\ ops[c].rc = 0}
\* the tag k of the registry is the image with the digest d: the last push
\* of k that returned 0 is the push of the tag and push loop, which follows
\* the docker tag of that digest as k
PointsAt(k, d) ==
    /\ PushesOf(k) # {}
    /\ \A c \in {MaxOf(PushesOf(k))} :
           /\ ops[c].cmd = "push"
           /\ c > 1
           /\ ops[c - 1] = Call("tag", k, d.text, <<>>, 0)
AllSucceeded == \A c \in 1..Len(ops) : ops[c].rc = 0

\* C19: at the end of a run whose commands all returned 0, the registry tag
\* of every entry that has a concrete digest and the status SUCCESS is the
\* image with that digest: no manifest was pushed over it.
C19_PushedTagsKept ==
    (pc = "done" /\ AllSucceeded) =>
        \A i \in 1..Len(tag_state) :
            (~Is(tag_state[i].digest, NEEDS_MANIFEST) /\ tag_state[i].status = SUCCESS) =>
                PointsAt(tag_state[i].key, tag_state[i].digest)

(***************************************************************************)
(* The frame of one step of the reduction.                                 *)
(***************************************************************************)
\* the tags derived from the version of a valid record
DerivedTags(e) ==
    {MajorOf(e), MediumOf(e), SemverOf(e)} \cup (IF IsArchRecord(e) THEN {e.version} ELSE {})

\* C20: the step that processes a valid record keeps every tag of the state
\* at its place, leaves the entry of every tag that is not derived from the
\* version of the record as it is, and adds entries for tags derived from
\* that version only.
C20_OnlyDerivedTagsChange ==
    [][(Processed /\ IsValid(LastEntry)) =>
          /\ Len(tag_state') >= Len(tag_state)
          /\ \A i \in 1..Len(tag_state) :
                 /\ tag_state'[i].key = tag_state[i].key
                 /\ tag_state[i].key \notin DerivedTags(LastEntry) => tag_state'[i] = tag_state[i]
          /\ \A i \in (Len(tag_state) + 1)..Len(tag_state') :
                 tag_state'[i].key \in DerivedTags(LastEntry)]_vars

\* the third record of the log has no arch suffix, its major tag has its
\* digest, and the state has a tag of another patch version that holds
\* NEEDS_MANIFEST and the arch-specific tag of an earlier record
C20_Witness ==
    /\ pc = "reduce"
    /\ Len(log) = 3
    /\ IsArchRecord(log[1])
    /\ IsPatchRecord(log[3])
    /\ Get(tag_state, MajorOf(log[3])).digest = DigestOf(3)
    /\ \E i, j \in 1..Len(tag_state) :
         /\ tag_state[i].key \notin DerivedTags(log[3])
         /\ Is(tag_state[i].digest, NEEDS_MANIFEST)
         /\ tag_state[j].key \notin DerivedTags(log[3])
         /\ tag_state[j].digest = DigestOf(1)

====
